---- MODULE Spec2Model ----
(***************************************************************************)
(* Model of the declarative construction macros of embedded-graphics       *)
(* (src/primitives/mod.rs): circle!, line!, rect! and triangle!.           *)
(*                                                                         *)
(* A macro invocation is written as positional geometry arguments followed *)
(* by a list of `key = value` pairs.  macro_rules transcribes it to a      *)
(* constructor call followed by one method call per pair; the compiler     *)
(* resolves the method names against the shape; the expression is then     *)
(* evaluated left to right.  The shape constructors, Coord and the         *)
(* WithStyle methods live outside mod.rs and are modelled from the         *)
(* specification (sections 3, 4.2 and 4.3).                                *)
(***************************************************************************)
EXTENDS Integers, Sequences, FiniteSets, TLC

(* ------------------------------ bounds --------------------------------- *)
\* longest list of style pairs written in one invocation
MaxPairs == 3
\* colours are 1..MaxColor
MaxColor == 2
\* coordinates range over -MaxCoord..MaxCoord
MaxCoord == 1
\* radii range over 0..MaxRadius
MaxRadius == 1

(* --------------------------- external values --------------------------- *)
\* Option<T>: None is the empty sequence, Some(v) the one-element sequence
None == <<>>
Some(v) == <<v>>

Colors == 1..MaxColor
OptionColor == {None} \cup {Some(c) : c \in Colors}

\* Style<C>: optional stroke and optional fill
Style == [stroke : OptionColor, fill : OptionColor]
Style_default == [stroke |-> None, fill |-> None]

\* Coord::new(x, y)
Coord_new(x, y) == <<x, y>>

\* geometric constructors: an unstyled shape (style absent)
Circle_new(center, radius) == [center |-> center, radius |-> radius, style |-> None]
Line_new(start, end) == [start |-> start, end |-> end, style |-> None]
Rect_new(top_left, bottom_right) ==
    [top_left |-> top_left, bottom_right |-> bottom_right, style |-> None]
Triangle_new(p1, p2, p3) == [p1 |-> p1, p2 |-> p2, p3 |-> p3, style |-> None]

\* WithStyle::stroke: set the stroke, keep the fill (absent on an unstyled shape)
stroke(s, v) ==
    [s EXCEPT !.style =
        Some([stroke |-> v,
              fill |-> IF s.style = None THEN None ELSE s.style[1].fill])]

\* WithStyle::fill: set the fill, keep the stroke (absent on an unstyled shape)
fill(s, v) ==
    [s EXCEPT !.style =
        Some([stroke |-> IF s.style = None THEN None ELSE s.style[1].stroke,
              fill |-> v])]

\* WithStyle::style: replace the whole style
style(s, v) == [s EXCEPT !.style = Some(v)]

\* the one-argument methods a shape offers to method-call syntax
WithStyleMethods == {"stroke", "fill", "style"}

(* ----------------------------- the macros ------------------------------ *)
\* An expansion is a constructor call and a chain of method calls.  Each macro
\* transcribes  Shape::new(Coord::new(..), ..) $( .$style_key($style_value) )*
\* : the positional arguments in their positions, one method call per pair,
\* in written order.  Before expansion there is no code.
NoExpr == [ctor |-> "", ctor_args |-> <<>>, chain |-> <<>>]

\* Faulty variants of the macros follow, each before the macro it departs
\* from; the properties at the end of the module fail for them.

\* the chain is transcribed in reverse order
Reversed(ps) ==
    [i \in 1..Len(ps) |->
        [method |-> ps[Len(ps) + 1 - i].key, arg |-> ps[Len(ps) + 1 - i].value]]

\* only the first pair is transcribed
FirstOnly(ps) ==
    [i \in 1..(IF Len(ps) = 0 THEN 0 ELSE 1) |-> [method |-> ps[i].key, arg |-> ps[i].value]]

\* the indices in S, in increasing order
Ascending(S) ==
    [n \in 1..Cardinality(S) |-> CHOOSE i \in S : Cardinality({j \in S : j < i}) = n - 1]

\* only the pairs whose index is in S are transcribed
Only(ps, S) ==
    [n \in 1..Cardinality(S) |->
        [method |-> ps[Ascending(S)[n]].key, arg |-> ps[Ascending(S)[n]].value]]

circle_reversed(a, ps) ==
    [ctor |-> "Circle", ctor_args |-> <<Coord_new(a[1], a[2]), a[3]>>, chain |-> Reversed(ps)]

\* cx and cy are passed in the wrong order
circle_swapped(a, ps) ==
    [ctor |-> "Circle",
     ctor_args |-> <<Coord_new(a[2], a[1]), a[3]>>,
     chain |-> [i \in 1..Len(ps) |-> [method |-> ps[i].key, arg |-> ps[i].value]]]

\* a key written twice is transcribed once, at its first occurrence
circle_dedup(a, ps) ==
    [ctor |-> "Circle",
     ctor_args |-> <<Coord_new(a[1], a[2]), a[3]>>,
     chain |-> Only(ps, {i \in 1..Len(ps) : \A j \in 1..(i - 1) : ps[j].key # ps[i].key})]

circle(a, ps) ==
    [ctor |-> "Circle",
     ctor_args |-> <<Coord_new(a[1], a[2]), a[3]>>,
     chain |-> [i \in 1..Len(ps) |-> [method |-> ps[i].key, arg |-> ps[i].value]]]

line_reversed(a, ps) ==
    [ctor |-> "Line",
     ctor_args |-> <<Coord_new(a[1], a[2]), Coord_new(a[3], a[4])>>,
     chain |-> Reversed(ps)]

\* an invocation without pairs gets the default style
line_defaultstyle(a, ps) ==
    [ctor |-> "Line",
     ctor_args |-> <<Coord_new(a[1], a[2]), Coord_new(a[3], a[4])>>,
     chain |-> IF ps = <<>> THEN <<[method |-> "style", arg |-> Style_default]>>
               ELSE [i \in 1..Len(ps) |-> [method |-> ps[i].key, arg |-> ps[i].value]]]

line(a, ps) ==
    [ctor |-> "Line",
     ctor_args |-> <<Coord_new(a[1], a[2]), Coord_new(a[3], a[4])>>,
     chain |-> [i \in 1..Len(ps) |-> [method |-> ps[i].key, arg |-> ps[i].value]]]

rect_reversed(a, ps) ==
    [ctor |-> "Rect",
     ctor_args |-> <<Coord_new(a[1], a[2]), Coord_new(a[3], a[4])>>,
     chain |-> Reversed(ps)]

\* a pair whose key is no style operation is dropped
rect_skip_unknown(a, ps) ==
    [ctor |-> "Rect",
     ctor_args |-> <<Coord_new(a[1], a[2]), Coord_new(a[3], a[4])>>,
     chain |-> Only(ps, {i \in 1..Len(ps) : ps[i].key \in WithStyleMethods})]

rect(a, ps) ==
    [ctor |-> "Rect",
     ctor_args |-> <<Coord_new(a[1], a[2]), Coord_new(a[3], a[4])>>,
     chain |-> [i \in 1..Len(ps) |-> [method |-> ps[i].key, arg |-> ps[i].value]]]

triangle_reversed(a, ps) ==
    [ctor |-> "Triangle",
     ctor_args |-> <<Coord_new(a[1], a[2]), Coord_new(a[3], a[4]), Coord_new(a[5], a[6])>>,
     chain |-> Reversed(ps)]

triangle_first_only(a, ps) ==
    [ctor |-> "Triangle",
     ctor_args |-> <<Coord_new(a[1], a[2]), Coord_new(a[3], a[4]), Coord_new(a[5], a[6])>>,
     chain |-> FirstOnly(ps)]

\* the second vertex is passed twice
triangle_dup(a, ps) ==
    [ctor |-> "Triangle",
     ctor_args |-> <<Coord_new(a[1], a[2]), Coord_new(a[3], a[4]), Coord_new(a[3], a[4])>>,
     chain |-> [i \in 1..Len(ps) |-> [method |-> ps[i].key, arg |-> ps[i].value]]]

triangle(a, ps) ==
    [ctor |-> "Triangle",
     ctor_args |-> <<Coord_new(a[1], a[2]), Coord_new(a[3], a[4]), Coord_new(a[5], a[6])>>,
     chain |-> [i \in 1..Len(ps) |-> [method |-> ps[i].key, arg |-> ps[i].value]]]

Kinds == {"circle", "line", "rect", "triangle"}

MacroExpand(k, a, ps) ==
    CASE k = "circle" -> circle(a, ps)
      [] k = "line" -> line(a, ps)
      [] k = "rect" -> rect(a, ps)
      [] k = "triangle" -> triangle(a, ps)

(* ------------------- evaluation of the expanded code ------------------- *)
\* every method named in the chain resolves on the shape
Resolves(e) == \A i \in 1..Len(e.chain) : e.chain[i].method \in WithStyleMethods

EvalCtor(e) ==
    CASE e.ctor = "Circle" -> Circle_new(e.ctor_args[1], e.ctor_args[2])
      [] e.ctor = "Line" -> Line_new(e.ctor_args[1], e.ctor_args[2])
      [] e.ctor = "Rect" -> Rect_new(e.ctor_args[1], e.ctor_args[2])
      [] e.ctor = "Triangle" -> Triangle_new(e.ctor_args[1], e.ctor_args[2], e.ctor_args[3])

CallMethod(s, m, v) ==
    CASE m = "stroke" -> stroke(s, v)
      [] m = "fill" -> fill(s, v)
      [] m = "style" -> style(s, v)

(* ------------------------ the explicit chain --------------------------- *)
\* Shape::new(Coord::new(..), ..) as written by hand in the documentation
Constructor(k, a) ==
    CASE k = "circle" -> Circle_new(Coord_new(a[1], a[2]), a[3])
      [] k = "line" -> Line_new(Coord_new(a[1], a[2]), Coord_new(a[3], a[4]))
      [] k = "rect" -> Rect_new(Coord_new(a[1], a[2]), Coord_new(a[3], a[4]))
      [] k = "triangle" ->
            Triangle_new(Coord_new(a[1], a[2]), Coord_new(a[3], a[4]), Coord_new(a[5], a[6]))

\* .k1(v1).k2(v2)...: each call observes the result of the previous one
RECURSIVE ApplyChain(_, _)
ApplyChain(s, ops) ==
    IF ops = <<>> THEN s
    ELSE ApplyChain(CallMethod(s, Head(ops).key, Head(ops).value), Tail(ops))

ExplicitChain(k, a, ps) == ApplyChain(Constructor(k, a), ps)

(* ------------------------------ inputs --------------------------------- *)
SeqsUpTo(S, n) == UNION {[1..m -> S] : m \in 0..n}

\* an identifier that names no style-application operation
UnknownKey == "color"

StylePairs ==
    {[key |-> "stroke", value |-> v] : v \in OptionColor}
    \cup {[key |-> "fill", value |-> v] : v \in OptionColor}
    \cup {[key |-> "style", value |-> s] : s \in Style}

Pairs == StylePairs \cup {[key |-> UnknownKey, value |-> Some(1)]}

\* the geometry used by the crate's own tests
TestGeometry(k) ==
    CASE k = "circle" -> <<10, 20, 30>>
      [] k = "line" -> <<10, 20, 30, 40>>
      [] k = "rect" -> <<10, 20, 30, 40>>
      [] k = "triangle" -> <<10, 20, 30, 40, 50, 60>>

\* the style lists used by the crate's own tests, and one with an unknown key
TestPairs ==
    { <<>>,
      <<[key |-> "stroke", value |-> Some(1)], [key |-> "fill", value |-> Some(10)]>>,
      <<[key |-> "style", value |-> Style_default]>>,
      <<[key |-> "stroke", value |-> Some(1)], [key |-> UnknownKey, value |-> Some(1)]>> }

Coords == (0 - MaxCoord)..MaxCoord
Radii == 0..MaxRadius

Geometries(k) ==
    CASE k = "circle" -> {<<x, y, r>> : x \in Coords, y \in Coords, r \in Radii}
      [] k \in {"line", "rect"} -> [1..4 -> Coords]
      [] k = "triangle" -> [1..6 -> Coords]

(* ------------------------------- state --------------------------------- *)
VARIABLES
    kind,    \* which macro is invoked
    args,    \* the positional geometry arguments, as written
    pairs,   \* the style pairs, as written
    pc,      \* "invoked", "rejected", "chain" or "done"
    expr,    \* the code the macro expanded to
    idx,     \* how many method calls of the chain have been evaluated
    shape    \* the running value: None before construction, Some(shape) after

vars == <<kind, args, pairs, pc, expr, idx, shape>>

Start ==
    /\ pc = "invoked"
    /\ expr = NoExpr
    /\ idx = 0
    /\ shape = None

\* every style list up to MaxPairs, on the tests' geometry
Init ==
    /\ kind \in Kinds
    /\ args = TestGeometry(kind)
    /\ pairs \in SeqsUpTo(Pairs, MaxPairs)
    /\ Start

\* every geometry, with the tests' style lists and every list of one pair
InitGeom ==
    /\ kind \in Kinds
    /\ args \in Geometries(kind)
    /\ pairs \in TestPairs \cup SeqsUpTo(Pairs, 1)
    /\ Start

(* ------------------------------ actions -------------------------------- *)
\* the expansion names a method the shape does not have: compilation fails
Reject ==
    /\ pc = "invoked"
    /\ ~Resolves(MacroExpand(kind, args, pairs))
    /\ expr' = MacroExpand(kind, args, pairs)
    /\ pc' = "rejected"
    /\ UNCHANGED <<kind, args, pairs, idx, shape>>

\* the expansion compiles; its constructor call is evaluated
Construct ==
    /\ pc = "invoked"
    /\ Resolves(MacroExpand(kind, args, pairs))
    /\ expr' = MacroExpand(kind, args, pairs)
    /\ shape' = Some(EvalCtor(expr'))
    /\ pc' = IF Len(expr'.chain) = 0 THEN "done" ELSE "chain"
    /\ UNCHANGED <<kind, args, pairs, idx>>

\* the next method call of the chain is evaluated on the running value
Call ==
    /\ pc = "chain"
    /\ idx < Len(expr.chain)
    /\ idx' = idx + 1
    /\ shape' = Some(CallMethod(shape[1], expr.chain[idx'].method, expr.chain[idx'].arg))
    /\ pc' = IF idx' = Len(expr.chain) THEN "done" ELSE "chain"
    /\ UNCHANGED <<kind, args, pairs, expr>>

Next == Reject \/ Construct \/ Call

Spec == Init /\ [][Next]_vars
SpecGeom == InitGeom /\ [][Next]_vars

(* ----------------------- notions used by the claims -------------------- *)
\* the identifiers that name a style-application operation
StyleKeys == {"stroke", "fill", "style"}

AllKeysKnown == \A i \in 1..Len(pairs) : pairs[i].key \in StyleKeys

Built == pc \in {"chain", "done"}

\* the style of the running value: None, or Some(style)
StyleNow == shape[1].style

\* the geometry fields of a shape of kind k
GeometryOf(k, s) ==
    CASE k = "circle" -> <<s.center, s.radius>>
      [] k = "line" -> <<s.start, s.end>>
      [] k = "rect" -> <<s.top_left, s.bottom_right>>
      [] k = "triangle" -> <<s.p1, s.p2, s.p3>>

\* a field of an optional style, None when the style is absent
FieldOf(st, f) == IF st = None THEN None ELSE st[1][f]

Other(f) == IF f = "stroke" THEN "fill" ELSE "stroke"

\* the largest element of a set of indices, 0 for the empty set
LastIn(S) == IF S = {} THEN 0 ELSE CHOOSE i \in S : \A j \in S : j <= i

\* field f after the pairs ps, read off the written list: the last pair that
\* sets f, unless a later `style` pair replaced it
FieldAfter(ps, f) ==
    LET js == LastIn({i \in 1..Len(ps) : ps[i].key = "style"})
        jf == LastIn({i \in 1..Len(ps) : ps[i].key = f})
    IN  IF jf > js THEN ps[jf].value
        ELSE IF js > 0 THEN ps[js].value[f]
        ELSE None

\* twice the signed area of the triangle with the given arguments
Area2(a) == (a[3] - a[1]) * (a[6] - a[2]) - (a[5] - a[1]) * (a[4] - a[2])

Degenerate(k, a) ==
    CASE k = "circle" -> a[3] = 0
      [] k = "line" -> a[1] = a[3] /\ a[2] = a[4]
      [] k = "rect" -> a[1] = a[3] \/ a[2] = a[4]
      [] k = "triangle" -> Area2(a) = 0

HasNegative(a) == \E i \in 1..Len(a) : a[i] < 0

(* ------------------------------- claims -------------------------------- *)

\* C1: when the macro's expression has been evaluated, its value is the value
\* of the explicit chain: the shape's constructor called on the same geometry,
\* then the written operations applied one after another, left to right.
C1_MacroEqualsExplicitChain ==
    pc = "done" => shape = Some(ExplicitChain(kind, args, pairs))

C1_Witness ==
    /\ pc = "done"
    /\ Len(pairs) = 3
    /\ {pairs[i].key : i \in 1..3} = StyleKeys
    /\ pairs[3].key = "fill"
    /\ StyleNow # Some(pairs[1].value)

\* C2: with no style pairs the macro yields a shape with the geometry of the
\* plain constructor call on the same arguments and with no style.
C2_NoPairsIsPlainConstructor ==
    (pc = "done" /\ pairs = <<>>) =>
        /\ StyleNow = None
        /\ GeometryOf(kind, shape[1]) = GeometryOf(kind, Constructor(kind, args))
        /\ shape = Some(Constructor(kind, args))

C2_Witness ==
    /\ pc = "done"
    /\ pairs = <<>>
    /\ kind = "line"
    /\ args[1] # args[3]
    /\ StyleNow = None

\* C3: `stroke = v1, fill = v2` and `fill = v2, stroke = v1` both end with the
\* style stroke = v1, fill = v2.
C3_StrokeFillCommute ==
    (/\ pc = "done"
     /\ Len(pairs) = 2
     /\ {pairs[1].key, pairs[2].key} = {"stroke", "fill"})
    => LET v1 == IF pairs[1].key = "stroke" THEN pairs[1].value ELSE pairs[2].value
           v2 == IF pairs[1].key = "fill" THEN pairs[1].value ELSE pairs[2].value
       IN  StyleNow = Some([stroke |-> v1, fill |-> v2])

C3_Witness ==
    /\ pc = "done"
    /\ kind = "triangle"
    /\ pairs = <<[key |-> "fill", value |-> Some(2)], [key |-> "stroke", value |-> Some(1)]>>
    /\ StyleNow = Some([stroke |-> Some(1), fill |-> Some(2)])

\* C4: when `style = s` is the last pair written, the resulting style is s
\* exactly, whatever stroke, fill or style pairs came before it.
C4_LastStyleReplaces ==
    (pc = "done" /\ Len(pairs) >= 1 /\ pairs[Len(pairs)].key = "style") =>
        StyleNow = Some(pairs[Len(pairs)].value)

C4_Witness ==
    /\ pc = "done"
    /\ kind = "circle"
    /\ pairs = <<[key |-> "stroke", value |-> Some(1)],
                 [key |-> "fill", value |-> Some(2)],
                 [key |-> "style", value |-> [stroke |-> None, fill |-> Some(1)]]>>
    /\ StyleNow = Some([stroke |-> None, fill |-> Some(1)])

\* C5: the step that applies a written `stroke = v` sets the stroke to v and
\* leaves the fill as it was (absent on an unstyled shape); the step that
\* applies a written `fill = v` sets the fill to v and leaves the stroke.
C5_Step ==
    (pc = "chain" /\ idx' = idx + 1 /\ pairs[idx + 1].key \in {"stroke", "fill"}) =>
        /\ FieldOf(StyleNow', pairs[idx + 1].key) = pairs[idx + 1].value
        /\ FieldOf(StyleNow', Other(pairs[idx + 1].key))
              = FieldOf(StyleNow, Other(pairs[idx + 1].key))
        /\ StyleNow' # None

C5_StrokeFillFrame == [][C5_Step]_vars

C5_Witness ==
    /\ kind = "line"
    /\ idx = 2
    /\ pairs[1] = [key |-> "fill", value |-> Some(2)]
    /\ pairs[2] = [key |-> "stroke", value |-> Some(1)]
    /\ StyleNow = Some([stroke |-> Some(1), fill |-> Some(2)])

C7_Total ==
    (pc # "invoked" /\ AllKeysKnown) =>
        /\ Built
        /\ shape # None
        /\ pc = "chain" => ENABLED Call
        /\ pc = "done" => idx = Len(pairs)
        /\ GeometryOf(kind, shape[1]) = GeometryOf(kind, Constructor(kind, args))

C7_Witness ==
    /\ pc = "done"
    /\ kind = "triangle"
    /\ Degenerate(kind, args)
    /\ HasNegative(args)
    /\ args[3] # args[5]
    /\ pairs = <<[key |-> "stroke", value |-> None]>>
    /\ shape # None
    /\ GeometryOf(kind, shape[1]) =
          <<<<args[1], args[2]>>, <<args[3], args[4]>>, <<args[5], args[6]>>>>

\* C8: from construction on, in every intermediate and final value, the
\* geometry fields hold the positional arguments, each in its own position.
C8_GeometryFixed ==
    Built =>
        /\ kind = "circle" =>
              /\ shape[1].center = <<args[1], args[2]>>
              /\ shape[1].radius = args[3]
        /\ kind = "line" =>
              /\ shape[1].start = <<args[1], args[2]>>
              /\ shape[1].end = <<args[3], args[4]>>
        /\ kind = "rect" =>
              /\ shape[1].top_left = <<args[1], args[2]>>
              /\ shape[1].bottom_right = <<args[3], args[4]>>
        /\ kind = "triangle" =>
              /\ shape[1].p1 = <<args[1], args[2]>>
              /\ shape[1].p2 = <<args[3], args[4]>>
              /\ shape[1].p3 = <<args[5], args[6]>>

C8_Witness ==
    /\ pc = "done"
    /\ kind = "circle"
    /\ args[1] # args[2]
    /\ idx = 2
    /\ StyleNow # None
    /\ shape[1].center = <<args[1], args[2]>>

\* C9: a key written twice is accepted and the fold decides: of two `style`
\* pairs in a row the later one is the result; of two `stroke` (or two `fill`)
\* pairs in a row the later value is the stroke (fill) and the other field is
\* what the pairs before them left; and a `style = s` between two stroke/fill
\* pairs gives s with only the later pair's field changed.
C9_RepeatedKeys ==
    pc = "done" =>
        LET n == Len(pairs) IN
        /\ (n >= 2 /\ pairs[n - 1].key = "style" /\ pairs[n].key = "style") =>
              StyleNow = Some(pairs[n].value)
        /\ \A f \in {"stroke", "fill"} :
              (n >= 2 /\ pairs[n - 1].key = f /\ pairs[n].key = f) =>
                  /\ FieldOf(StyleNow, f) = pairs[n].value
                  /\ FieldOf(StyleNow, Other(f)) = FieldAfter(SubSeq(pairs, 1, n - 2), Other(f))
        /\ (/\ n = 3
            /\ pairs[1].key \in {"stroke", "fill"}
            /\ pairs[2].key = "style"
            /\ pairs[3].key \in {"stroke", "fill"}) =>
              StyleNow = Some([pairs[2].value EXCEPT ![pairs[3].key] = pairs[3].value])

C9_Witness ==
    /\ pc = "done"
    /\ kind = "circle"
    /\ pairs = <<[key |-> "fill", value |-> Some(2)],
                 [key |-> "stroke", value |-> Some(1)],
                 [key |-> "stroke", value |-> Some(2)]>>
    /\ StyleNow = Some([stroke |-> Some(2), fill |-> Some(2)])

\* C10: `style = s, stroke = v` yields s with its stroke set to v, while
\* `stroke = v, style = s` yields s; the first differs from s exactly when
\* s.stroke differs from v.  The same holds with fill in place of stroke.
C10_StyleDoesNotCommute ==
    (pc = "done" /\ Len(pairs) = 2) =>
        /\ (pairs[1].key = "style" /\ pairs[2].key \in {"stroke", "fill"}) =>
              LET s == pairs[1].value
                  f == pairs[2].key
                  v == pairs[2].value
              IN  /\ StyleNow = Some([s EXCEPT ![f] = v])
                  /\ (StyleNow # Some(s)) <=> (s[f] # v)
        /\ (pairs[1].key \in {"stroke", "fill"} /\ pairs[2].key = "style") =>
              StyleNow = Some(pairs[2].value)

C10_Witness ==
    /\ pc = "done"
    /\ kind = "rect"
    /\ pairs = <<[key |-> "style", value |-> [stroke |-> Some(1), fill |-> Some(1)]],
                 [key |-> "stroke", value |-> Some(2)]>>
    /\ StyleNow = Some([stroke |-> Some(2), fill |-> Some(1)])

====
